---- MODULE Spec2Model ----
(***************************************************************************)
(* Model of lib/features/minimap/Minimap.js: the minimap widget of a       *)
(* diagram canvas.  The widget state is the drag record (_state), the      *)
(* mirror nodes of the elements group and the attributes of the svg and of *)
(* the viewport rectangle.  The canvas, the element registry and the event *)
(* bus are the widget's collaborators; their state (registered elements,   *)
(* viewbox) is part of the model because the handlers read and write it.   *)
(*                                                                         *)
(* JavaScript numbers are modelled as exact fractions n/d extended with    *)
(* NaN (0/0), +Infinity (1/0) and -Infinity (-1/0); rounding of IEEE       *)
(* doubles and the sign of zero are not modelled.  JavaScript strings are  *)
(* sequences of one-character strings.  Every JavaScript value is a record *)
(* [t, n, d, s] so that numbers and strings can meet in one comparison.    *)
(***************************************************************************)
EXTENDS Integers, Sequences, FiniteSets, TLC

VARIABLES
  state,        \* this._state: isDragging, initialDragPosition, cachedViewbox
  nodes,        \* children of this._elementsGroup, in document order
  svgViewBox,   \* viewBox attribute of this._svg
  viewport,     \* x, y, width, height attributes of this._viewport
  registry,     \* elementRegistry: id -> graphics (or NoGfx)
  viewbox,      \* canvas.viewbox()
  req,          \* what the last handler asked of the canvas
  threw,        \* TRUE when the last handler ended with an exception
  call          \* a call of one of the module's pure functions and its result

vars == <<state, nodes, svgViewBox, viewport, registry, viewbox, req, threw, call>>

----------------------------------------------------------------------------
(* JavaScript values *)

Num(n, d) == [t |-> "num", n |-> n, d |-> d, s |-> <<>>]

Str(s) == [t |-> "str", n |-> 0, d |-> 0, s |-> s]

N(i) == Num(i, 1)

NaN == Num(0, 0)

Infinity == Num(1, 0)

IsNaN(v) == v.t = "num" /\ v.n = 0 /\ v.d = 0

IsFinite(v) == v.t = "num" /\ v.d # 0

Abs(i) == IF i < 0 THEN -i ELSE i

Sign(i) == IF i < 0 THEN -1 ELSE IF i > 0 THEN 1 ELSE 0

RECURSIVE GCD(_, _)
GCD(a, b) == IF b = 0 THEN a ELSE GCD(b, a % b)

\* the fraction n/d in lowest terms with a positive denominator; d = 0 gives
\* NaN or an infinity by the sign of n
Norm(n, d) ==
  IF d = 0 THEN Num(Sign(n), 0)
  ELSE LET g == GCD(Abs(n), Abs(d))
           sg == IF d < 0 THEN -1 ELSE 1
       IN Num((sg * n) \div g, (sg * d) \div g)

Digits == <<"0", "1", "2", "3", "4", "5", "6", "7", "8", "9">>

IsDigit(c) == \E i \in 1..10 : Digits[i] = c

DigitVal(c) == (CHOOSE i \in 1..10 : Digits[i] = c) - 1

RECURSIVE DecimalValue(_)
DecimalValue(s) ==
  IF s = <<>> THEN 0
  ELSE 10 * DecimalValue(SubSeq(s, 1, Len(s) - 1)) + DigitVal(s[Len(s)])

\* ToNumber applied to a string: a string of decimal digits is that number,
\* the empty string is 0, a string with any other character ('320px') is NaN
StringToNumber(s) ==
  IF \A i \in 1..Len(s) : IsDigit(s[i]) THEN N(DecimalValue(s)) ELSE NaN

ToNumber(v) == IF v.t = "num" THEN v ELSE StringToNumber(v.s)

Neg(a) == Num(-a.n, a.d)

Add(a, b) ==
  IF IsNaN(a) \/ IsNaN(b) THEN NaN
  ELSE IF a.d = 0 /\ b.d = 0 THEN (IF a.n = b.n THEN a ELSE NaN)
  ELSE Norm(a.n * b.d + b.n * a.d, a.d * b.d)

Mul(a, b) == Norm(a.n * b.n, a.d * b.d)

Recip(a) == Norm(a.d, a.n)

\* the operators -, * and / convert both operands with ToNumber
JsSub(a, b) == Add(ToNumber(a), Neg(ToNumber(b)))

JsAdd(a, b) == Add(ToNumber(a), ToNumber(b))

JsMul(a, b) == Mul(ToNumber(a), ToNumber(b))

JsDiv(a, b) == Mul(ToNumber(a), Recip(ToNumber(b)))

NumLt(a, b) ==
  IF IsNaN(a) \/ IsNaN(b) THEN FALSE
  ELSE IF a.d = 0 /\ b.d = 0 THEN a.n < b.n
  ELSE a.n * b.d < b.n * a.d

\* a < b where at least one operand is a number: the other is converted
\* with ToNumber, and a comparison with NaN is false
JsLt(a, b) == NumLt(ToNumber(a), ToNumber(b))

JsGt(a, b) == JsLt(b, a)

\* Math.max and Math.min of two numbers; NaN if either is NaN
MathMax(a, b) == IF IsNaN(a) \/ IsNaN(b) THEN NaN ELSE IF NumLt(a, b) THEN b ELSE a

MathMin(a, b) == IF IsNaN(a) \/ IsNaN(b) THEN NaN ELSE IF NumLt(b, a) THEN b ELSE a

----------------------------------------------------------------------------
(* Module constants *)

MINIMAP_DIMENSIONS ==
  [width |-> Str(<<"3", "2", "0", "p", "x">>),
   height |-> Str(<<"1", "8", "0", "p", "x">>)]

MIN_VIEWBOX_DIMENSIONS ==
  [width |-> MINIMAP_DIMENSIONS.width, height |-> MINIMAP_DIMENSIONS.height]

ZOOM_SMOOTHING == 300

MIN_ZOOM == N(4)

MAX_ZOOM == Num(1, 5)

----------------------------------------------------------------------------
(* Geometric functions *)

Box(x, y, w, h) == [x |-> x, y |-> y, width |-> w, height |-> h]

Half(a) == JsDiv(a, N(2))

\* fitAspectRatio growing the box to one side only: the shift of y and x is
\* the whole growth instead of half of it
fitAspectRatio_oneSided(bounds, targetAspectRatio) ==
  LET aspectRatio == JsDiv(bounds.width, bounds.height) IN
  IF JsGt(aspectRatio, targetAspectRatio) THEN
    LET height == JsMul(bounds.width, JsDiv(N(1), targetAspectRatio))
        y == JsSub(bounds.y, JsSub(height, bounds.height))
    IN [bounds EXCEPT !.y = y, !.height = height]
  ELSE IF JsLt(aspectRatio, targetAspectRatio) THEN
    LET width == JsMul(bounds.height, targetAspectRatio)
        x == JsSub(bounds.x, JsSub(width, bounds.width))
    IN [bounds EXCEPT !.x = x, !.width = width]
  ELSE bounds

\* fitAspectRatio with the two fitted axes exchanged: the height is fitted
\* when the box is too narrow, the width when it is too wide
fitAspectRatio_axesSwapped(bounds, targetAspectRatio) ==
  LET aspectRatio == JsDiv(bounds.width, bounds.height) IN
  IF JsLt(aspectRatio, targetAspectRatio) THEN
    LET height == JsMul(bounds.width, JsDiv(N(1), targetAspectRatio))
        y == JsSub(bounds.y, Half(JsSub(height, bounds.height)))
    IN [bounds EXCEPT !.y = y, !.height = height]
  ELSE IF JsGt(aspectRatio, targetAspectRatio) THEN
    LET width == JsMul(bounds.height, targetAspectRatio)
        x == JsSub(bounds.x, Half(JsSub(width, bounds.width)))
    IN [bounds EXCEPT !.x = x, !.width = width]
  ELSE bounds

\* the bounds object after the call; the function returns that same object
fitAspectRatio(bounds, targetAspectRatio) ==
  LET aspectRatio == JsDiv(bounds.width, bounds.height) IN
  IF JsGt(aspectRatio, targetAspectRatio) THEN
    LET height == JsMul(bounds.width, JsDiv(N(1), targetAspectRatio))
        y == JsSub(bounds.y, Half(JsSub(height, bounds.height)))
    IN [bounds EXCEPT !.y = y, !.height = height]
  ELSE IF JsLt(aspectRatio, targetAspectRatio) THEN
    LET width == JsMul(bounds.height, targetAspectRatio)
        x == JsSub(bounds.x, Half(JsSub(width, bounds.width)))
    IN [bounds EXCEPT !.x = x, !.width = width]
  ELSE bounds

\* map without the shift to the start of the output range
map_unshifted(x, inMin, inMax, outMin, outMax) ==
  LET inRange == JsSub(inMax, inMin)
      outRange == JsSub(outMax, outMin)
  IN JsDiv(JsMul(JsSub(x, inMin), outRange), inRange)

map(x, inMin, inMax, outMin, outMax) ==
  LET inRange == JsSub(inMax, inMin)
      outRange == JsSub(outMax, outMin)
  IN JsAdd(JsDiv(JsMul(JsSub(x, inMin), outRange), inRange), outMin)

----------------------------------------------------------------------------
(* The collaborators: element registry, canvas, DOM *)

Null == [null |-> TRUE]

Undefined == [undefined |-> TRUE]

\* an attribute that has not been set
NoAttr == [unset |-> TRUE]

\* number of distinct rendered visuals an element can have
NumVisuals == 2

Visuals == 1..NumVisuals

Ids == {"a", "b"}

\* registry value of an id without graphics
NoGfx == 0

\* the elements of the diagram: "a" is a shape, "b" a connection
Element(id) ==
  IF id = "a" THEN [id |-> id, x |-> 0, y |-> 0, waypoints |-> FALSE]
  ELSE [id |-> id, x |-> 100, y |-> 50, waypoints |-> TRUE]

ElementBox(id) ==
  IF id = "a" THEN Box(N(0), N(0), N(100), N(100))
  ELSE Box(N(100), N(50), N(300), N(200))

MinOf(S) == CHOOSE m \in S : \A o \in S : m <= o

MaxOf(S) == CHOOSE m \in S : \A o \in S : m >= o

\* canvas.getDefaultLayer().getBBox(): the bounding box of the rendered
\* elements, all zero for an empty layer; a fresh object on every call
getBBox(reg) ==
  LET present == {id \in Ids : reg[id] # NoGfx} IN
  IF present = {} THEN Box(N(0), N(0), N(0), N(0))
  ELSE LET x1 == MinOf({ElementBox(id).x.n : id \in present})
           y1 == MinOf({ElementBox(id).y.n : id \in present})
           x2 == MaxOf({ElementBox(id).x.n + ElementBox(id).width.n : id \in present})
           y2 == MaxOf({ElementBox(id).y.n + ElementBox(id).height.n : id \in present})
       IN Box(N(x1), N(y1), N(x2 - x1), N(y2 - y1))

\* size of the canvas container in pixels
OUTER == [width |-> N(640), height |-> N(360)]

\* canvas.zoom(): the scale of the current viewbox
canvasZoom(vb) == JsDiv(OUTER.width, vb.width)

\* canvas.viewbox(box): the canvas shows box
canvasSetViewbox(vb, box) == box

\* canvas.zoom(newScale): a falsy scale (0, NaN) only reads; otherwise the
\* canvas scales about the centre of the visible area
canvasSetZoom(vb, newScale) ==
  IF IsNaN(newScale) \/ newScale = N(0) THEN vb
  ELSE LET w == JsDiv(OUTER.width, newScale)
           h == JsDiv(OUTER.height, newScale)
           cx == JsAdd(vb.x, Half(vb.width))
           cy == JsAdd(vb.y, Half(vb.height))
       IN Box(JsSub(cx, Half(w)), JsSub(cy, Half(h)), w, h)

\* svg.getBoundingClientRect(): the pixel size of the miniature
boundingClientRect == [width |-> N(320), height |-> N(180)]

----------------------------------------------------------------------------
(* Functions of the widget *)

isConnection(element) == element.waypoints

\* the first child of gfx with class djs-visual: the element's visual
getDjsVisual(gfx) == gfx

\* mapClickToDiagramPointOn mapping the vertical offset over the width of
\* the miniature instead of its height
mapClickToDiagramPointOn_widthTwice(event, layerBBox, clientRect) ==
  LET bBox == fitAspectRatio(layerBBox, JsDiv(clientRect.width, clientRect.height))
      diagramX == map(event.offsetX, N(0), clientRect.width,
                      bBox.x, JsAdd(bBox.x, bBox.width))
      diagramY == map(event.offsetY, N(0), clientRect.width,
                      bBox.y, JsAdd(bBox.y, bBox.height))
  IN [x |-> diagramX, y |-> diagramY]

\* mapClickToDiagramPoint for a default layer with bounding box layerBBox and
\* an svg with bounding client rectangle clientRect
mapClickToDiagramPointOn(event, layerBBox, clientRect) ==
  LET bBox == fitAspectRatio(layerBBox, JsDiv(clientRect.width, clientRect.height))
      diagramX == map(event.offsetX, N(0), clientRect.width,
                      bBox.x, JsAdd(bBox.x, bBox.width))
      diagramY == map(event.offsetY, N(0), clientRect.height,
                      bBox.y, JsAdd(bBox.y, bBox.height))
  IN [x |-> diagramX, y |-> diagramY]

mapClickToDiagramPoint(event, reg) ==
  mapClickToDiagramPointOn(event, getBBox(reg), boundingClientRect)

\* centeredViewbox with the point as the top-left corner of the viewbox
centeredViewbox_cornered(point, vb) ==
  Box(point.x, point.y, vb.width, vb.height)

\* the viewbox that setViewboxCenteredAroundPoint passes to canvas.viewbox
centeredViewbox(point, vb) ==
  LET cachedViewboxWidth == vb.width
      cachedViewboxHeight == vb.height
  IN Box(JsSub(point.x, Half(cachedViewboxWidth)),
         JsSub(point.y, Half(cachedViewboxHeight)),
         cachedViewboxWidth, cachedViewboxHeight)

\* the canvas viewbox after setViewboxCenteredAroundPoint(point, canvas)
setViewboxCenteredAroundPoint(point, vb) ==
  canvasSetViewbox(vb, centeredViewbox(point, vb))

\* the viewBox attribute _update gives the svg
updateViewBox(bBox) ==
  IF JsLt(bBox.width, MIN_VIEWBOX_DIMENSIONS.width)
       /\ JsLt(bBox.height, MIN_VIEWBOX_DIMENSIONS.height) THEN
    LET x == JsSub(bBox.x, Half(JsSub(MIN_VIEWBOX_DIMENSIONS.width, bBox.width)))
        y == JsSub(bBox.y, Half(JsSub(MIN_VIEWBOX_DIMENSIONS.height, bBox.height)))
        width == IF JsLt(bBox.width, MIN_VIEWBOX_DIMENSIONS.width)
                 THEN MIN_VIEWBOX_DIMENSIONS.width ELSE bBox.width
        height == IF JsLt(bBox.height, MIN_VIEWBOX_DIMENSIONS.height)
                  THEN MIN_VIEWBOX_DIMENSIONS.height ELSE bBox.height
    IN Box(x, y, width, height)
  ELSE Box(bBox.x, bBox.y, bBox.width, bBox.height)

\* updateViewport with width and height exchanged
updateViewport_swapped(vb) == Box(vb.x, vb.y, vb.height, vb.width)

\* the attributes _update gives the viewport rectangle
updateViewport(vb) == Box(vb.x, vb.y, vb.width, vb.height)

\* _update as a conjunct of an action: reg and vb are the registry and the
\* viewbox at the time of the call
Update(reg, vb) ==
  /\ svgViewBox' = updateViewBox(getBBox(reg))
  /\ viewport' = updateViewport(vb)

\* the mirror node addElement creates for element from djsVisual
clone(element, djsVisual) ==
  [id |-> element.id,
   visual |-> djsVisual,
   transform |-> IF ~isConnection(element) THEN <<element.x, element.y>> ELSE <<>>]

addElement(ns, element, djsVisual) == Append(ns, clone(element, djsVisual))

\* svg.getElementById(id): the position of the first node with that id,
\* 0 (null) when there is none
getElementById(ns, id) ==
  IF \E i \in 1..Len(ns) : ns[i].id = id
  THEN CHOOSE i \in 1..Len(ns) : ns[i].id = id /\ \A j \in 1..(i - 1) : ns[j].id # id
  ELSE 0

\* svgRemove(node): takes the node out of its parent; a null node throws
svgRemove(ns, node) ==
  IF node = 0 THEN [nodes |-> ns, threw |-> TRUE]
  ELSE [nodes |-> SubSeq(ns, 1, node - 1) \o SubSeq(ns, node + 1, Len(ns)),
        threw |-> FALSE]

\* removeElement taking out every node with the id of the element
removeElement_all(ns, element) ==
  LET Other(n) == n.id # element.id IN
  [nodes |-> SelectSeq(ns, Other), threw |-> FALSE]

removeElement(ns, element) ==
  LET node == getElementById(ns, element.id) IN
  IF node # 0 THEN svgRemove(ns, node) ELSE [nodes |-> ns, threw |-> FALSE]

----------------------------------------------------------------------------
(* Inputs of the handlers *)

\* largest number of mirror nodes the elements group holds in the model
MaxNodes == 2

\* pointer positions on the miniature, in pixels from its top-left corner
Offsets ==
  {[offsetX |-> N(160), offsetY |-> N(90)], [offsetX |-> N(0), offsetY |-> N(0)]}

\* pointer positions in the window
ClientPoints == {[x |-> 10, y |-> 10], [x |-> 20, y |-> 5]}

\* wheel deltas
DeltaYs == {-900, 900}

\* viewboxes the user of the canvas moves to without the minimap
ExtViewboxes == {Box(N(0), N(0), N(320), N(180))}

\* the batches of an elements.changed notification: sequences of distinct ids
Batches == {<<"a">>, <<"b">>, <<"a", "b">>, <<"b", "a">>}

\* the record of a handler: ev names it, point is the diagram point it
\* computed, pre the canvas viewbox it found, box the viewbox and zoom the
\* zoom it passed to the canvas, deltaY the wheel delta, drag the drag it
\* ended, id the element it was about, bounds the bounding box it gave to
\* fitAspectRatio, batch the elements of elements.changed, and
\* propagationStopped and defaultPrevented what it did to its event; this is
\* the record of a handler that computed nothing, asked nothing of the canvas
\* and left its event alone
NoReq(ev) ==
  [ev |-> ev, point |-> Undefined, pre |-> Undefined, box |-> Undefined,
   zoom |-> Undefined, deltaY |-> Undefined, drag |-> Undefined,
   id |-> Undefined, bounds |-> Undefined, batch |-> Undefined,
   propagationStopped |-> FALSE, defaultPrevented |-> FALSE]

----------------------------------------------------------------------------
(* State after construction *)

\* the widget and its collaborators after new Minimap(...): _state has no
\* initialDragPosition yet, _update has not run
InitWidget ==
  /\ state = [isDragging |-> FALSE, initialDragPosition |-> Undefined,
              cachedViewbox |-> Null]
  /\ nodes = <<>>
  /\ svgViewBox = NoAttr
  /\ viewport = NoAttr
  /\ registry = [id \in Ids |-> NoGfx]
  /\ viewbox = Box(N(0), N(0), OUTER.width, OUTER.height)
  /\ req = NoReq("init")
  /\ threw = FALSE

Init ==
  /\ InitWidget
  /\ call = [fn |-> "none"]

----------------------------------------------------------------------------
(* DOM event handlers *)

\* click on the svg
Click(event) ==
  LET diagramPoint == mapClickToDiagramPoint(event, registry)
      vb == setViewboxCenteredAroundPoint(diagramPoint, viewbox)
  IN /\ viewbox' = vb
     /\ Update(registry, vb)
     /\ req' = [NoReq("click") EXCEPT !.point = diagramPoint, !.pre = viewbox,
                  !.box = centeredViewbox(diagramPoint, viewbox),
                  !.bounds = getBBox(registry)]
     /\ threw' = FALSE
     /\ UNCHANGED <<state, nodes, registry, call>>

\* mousedown that starts the drag without the snapshot of the viewbox
MouseDown_noSnapshot(event) ==
  /\ state' = [state EXCEPT !.isDragging = TRUE,
                 !.initialDragPosition = [x |-> event.x, y |-> event.y]]
  /\ req' = [NoReq("mousedown") EXCEPT !.pre = viewbox]
  /\ threw' = FALSE
  /\ UNCHANGED <<nodes, svgViewBox, viewport, registry, viewbox, call>>

\* mousedown on the viewport rectangle
MouseDown(event) ==
  /\ state' = [state EXCEPT !.isDragging = TRUE,
                 !.initialDragPosition = [x |-> event.x, y |-> event.y],
                 !.cachedViewbox = viewbox]
  /\ req' = [NoReq("mousedown") EXCEPT !.pre = viewbox]
  /\ threw' = FALSE
  /\ UNCHANGED <<nodes, svgViewBox, viewport, registry, viewbox, call>>

\* mousemove that takes a new snapshot of the viewbox while dragging
MouseMove_refreshesSnapshot(event) ==
  /\ IF state.isDragging THEN
       LET diagramPoint == mapClickToDiagramPoint(event, registry)
           vb == setViewboxCenteredAroundPoint(diagramPoint, viewbox)
       IN /\ viewbox' = vb
          /\ Update(registry, vb)
          /\ state' = [state EXCEPT !.cachedViewbox = vb]
          /\ req' = [NoReq("mousemove") EXCEPT !.point = diagramPoint,
                       !.pre = viewbox,
                       !.box = centeredViewbox(diagramPoint, viewbox),
                       !.bounds = getBBox(registry)]
     ELSE
       /\ req' = NoReq("mousemove")
       /\ UNCHANGED <<state, viewbox, svgViewBox, viewport>>
  /\ threw' = FALSE
  /\ UNCHANGED <<nodes, registry, call>>

\* mousemove anywhere in the document
MouseMove(event) ==
  /\ IF state.isDragging THEN
       LET diagramPoint == mapClickToDiagramPoint(event, registry)
           vb == setViewboxCenteredAroundPoint(diagramPoint, viewbox)
       IN /\ viewbox' = vb
          /\ Update(registry, vb)
          /\ req' = [NoReq("mousemove") EXCEPT !.point = diagramPoint,
                       !.pre = viewbox,
                       !.box = centeredViewbox(diagramPoint, viewbox),
                       !.bounds = getBBox(registry)]
     ELSE
       /\ req' = NoReq("mousemove")
       /\ UNCHANGED <<viewbox, svgViewBox, viewport>>
  /\ threw' = FALSE
  /\ UNCHANGED <<state, nodes, registry, call>>

\* what a mouseup ends: no drag, a drag that left the viewbox of its
\* mousedown in place, or a drag during which the viewbox changed
dragEnded ==
  IF ~state.isDragging THEN "none"
  ELSE IF state.cachedViewbox = viewbox THEN "still" ELSE "moved"

\* mouseup that ends the drag and keeps the snapshot of the viewbox
MouseUp_keepsSnapshot ==
  /\ state' = [state EXCEPT !.isDragging = FALSE,
                 !.initialDragPosition = Null]
  /\ req' = [NoReq("mouseup") EXCEPT !.drag = dragEnded]
  /\ threw' = FALSE
  /\ UNCHANGED <<nodes, svgViewBox, viewport, registry, viewbox, call>>

\* mouseup anywhere in the document
MouseUp ==
  /\ state' = [state EXCEPT !.isDragging = FALSE,
                 !.initialDragPosition = Null,
                 !.cachedViewbox = Null]
  /\ req' = [NoReq("mouseup") EXCEPT !.drag = dragEnded]
  /\ threw' = FALSE
  /\ UNCHANGED <<nodes, svgViewBox, viewport, registry, viewbox, call>>

\* wheelZoom without the Math.min that keeps the zoom at or below MIN_ZOOM
wheelZoom_noCeiling(zoom, deltaY) ==
  MathMax(JsSub(zoom, JsDiv(deltaY, N(ZOOM_SMOOTHING))), MAX_ZOOM)

\* wheelZoom adding the scaled delta to the zoom instead of subtracting it
wheelZoom_added(zoom, deltaY) ==
  MathMin(MathMax(JsAdd(zoom, JsDiv(deltaY, N(ZOOM_SMOOTHING))), MAX_ZOOM), MIN_ZOOM)

\* the zoom the wheel handler passes to canvas.zoom
wheelZoom(zoom, deltaY) ==
  MathMin(MathMax(JsSub(zoom, JsDiv(deltaY, N(ZOOM_SMOOTHING))), MAX_ZOOM), MIN_ZOOM)

\* wheel on the svg
Wheel(event, deltaY) ==
  LET diagramPoint == mapClickToDiagramPoint(event, registry)
      vb1 == setViewboxCenteredAroundPoint(diagramPoint, viewbox)
      zoom == canvasZoom(vb1)
      newZoom == wheelZoom(zoom, N(deltaY))
      vb2 == canvasSetZoom(vb1, newZoom)
  IN /\ viewbox' = vb2
     /\ Update(registry, vb2)
     /\ req' = [NoReq("wheel") EXCEPT !.point = diagramPoint, !.pre = viewbox,
                  !.box = centeredViewbox(diagramPoint, viewbox),
                  !.zoom = newZoom, !.deltaY = N(deltaY),
                  !.bounds = getBBox(registry),
                  !.propagationStopped = TRUE]
     /\ threw' = FALSE
     /\ UNCHANGED <<state, nodes, registry, call>>

----------------------------------------------------------------------------
(* Event-bus listeners *)

\* the canvas adds element id with visual v and emits shape.added or
\* connection.added
ElementAdded(id, v) ==
  /\ registry[id] = NoGfx
  /\ Len(nodes) < MaxNodes
  /\ registry' = [registry EXCEPT ![id] = v]
  /\ nodes' = addElement(nodes, Element(id), getDjsVisual(v))
  /\ Update(registry', viewbox)
  /\ req' = [NoReq("added") EXCEPT !.id = id]
  /\ threw' = FALSE
  /\ UNCHANGED <<state, viewbox, call>>

\* the canvas removes element id and emits shape.removed or
\* connection.removed: the widget has no listener for either
ElementRemoved(id) ==
  /\ registry[id] # NoGfx
  /\ registry' = [registry EXCEPT ![id] = NoGfx]
  /\ req' = [NoReq("removed") EXCEPT !.id = id]
  /\ threw' = FALSE
  /\ UNCHANGED <<state, nodes, svgViewBox, viewport, viewbox, call>>

\* the diagram redraws element id with another visual; the notification
\* follows as elements.changed
ElementRedrawn(id, v) ==
  /\ registry[id] # NoGfx
  /\ registry[id] # v
  /\ registry' = [registry EXCEPT ![id] = v]
  /\ req' = [NoReq("redrawn") EXCEPT !.id = id]
  /\ threw' = FALSE
  /\ UNCHANGED <<state, nodes, svgViewBox, viewport, viewbox, call>>

\* the body of the elements.changed loop for one element
changeElement(ns, reg, id) ==
  LET removed == removeElement(ns, Element(id))
      gfx == reg[id]
  IN IF removed.threw THEN removed
     ELSE IF gfx # NoGfx
       THEN [nodes |-> addElement(removed.nodes, Element(id), getDjsVisual(gfx)),
             threw |-> FALSE]
       ELSE removed

RECURSIVE changeElements(_, _, _)
changeElements(ns, reg, elements) ==
  IF elements = <<>> THEN [nodes |-> ns, threw |-> FALSE]
  ELSE LET first == changeElement(ns, reg, elements[1]) IN
       IF first.threw THEN first
       ELSE changeElements(first.nodes, reg, Tail(elements))

\* elements.changed for the batch elements
ElementsChanged(elements) ==
  LET changed == changeElements(nodes, registry, elements) IN
  /\ nodes' = changed.nodes
  /\ threw' = changed.threw
  /\ IF changed.threw THEN UNCHANGED <<svgViewBox, viewport>>
     ELSE Update(registry, viewbox)
  /\ req' = [NoReq("changed") EXCEPT !.batch = elements]
  /\ UNCHANGED <<state, registry, viewbox, call>>

\* the canvas viewbox is changed from outside the widget and the canvas
\* emits canvas.viewbox.changed
ViewboxChanged(box) ==
  /\ viewbox # box
  /\ viewbox' = box
  /\ Update(registry, box)
  /\ req' = NoReq("viewbox.changed")
  /\ threw' = FALSE
  /\ UNCHANGED <<state, nodes, registry, call>>

----------------------------------------------------------------------------
(* Public methods called by the host *)

ApiRemoveElement(id) ==
  LET removed == removeElement(nodes, Element(id)) IN
  /\ nodes' = removed.nodes
  /\ threw' = removed.threw
  /\ req' = [NoReq("removeElement") EXCEPT !.id = id]
  /\ UNCHANGED <<state, svgViewBox, viewport, registry, viewbox, call>>

\* the host calls addElement(element, djsVisual) with visual v
ApiAddElement(id, v) ==
  /\ Len(nodes) < MaxNodes
  /\ nodes' = addElement(nodes, Element(id), v)
  /\ threw' = FALSE
  /\ req' = [NoReq("addElement") EXCEPT !.id = id]
  /\ UNCHANGED <<state, svgViewBox, viewport, registry, viewbox, call>>

\* shape.added or connection.added for an element without a mirror node
ElementAddedOnce(id, v) ==
  /\ getElementById(nodes, id) = 0
  /\ ElementAdded(id, v)

----------------------------------------------------------------------------
(* Specifications *)

\* pointer, wheel and viewbox events
ViewEvents ==
  \/ \E event \in Offsets : Click(event)
  \/ \E event \in ClientPoints : MouseDown(event)
  \/ \E event \in Offsets : MouseMove(event)
  \/ MouseUp
  \/ \E event \in Offsets, deltaY \in DeltaYs : Wheel(event, deltaY)
  \/ \E box \in ExtViewboxes : ViewboxChanged(box)

\* notifications about the elements of the diagram
ElementEvents ==
  \/ \E id \in Ids, v \in Visuals : ElementAdded(id, v)
  \/ \E id \in Ids : ElementRemoved(id)
  \/ \E id \in Ids, v \in Visuals : ElementRedrawn(id, v)
  \/ \E elements \in Batches : ElementsChanged(elements)

\* the widget under every event; with the inputs above this graph has more
\* than 600,000 states, so the properties are checked under the
\* specifications below, each of which takes the events its properties are
\* about
Next == ViewEvents \/ ElementEvents

Spec == Init /\ [][Next]_vars

\* the widget under pointer, wheel and viewbox events, on a diagram that
\* gets the element "a" with its first visual and keeps it
NextView == ViewEvents \/ ElementAdded("a", 1)

SpecView == Init /\ [][NextView]_vars

\* the widget under every event, on a diagram with the one element "a",
\* added with its first visual when it has no mirror node and redrawn with
\* its second, with one place for the mousedown and one wheel delta
NextAll ==
  \/ \E event \in Offsets : Click(event)
  \/ MouseDown([x |-> 10, y |-> 10])
  \/ \E event \in Offsets : MouseMove(event)
  \/ MouseUp
  \/ \E event \in Offsets : Wheel(event, -900)
  \/ \E box \in ExtViewboxes : ViewboxChanged(box)
  \/ ElementAddedOnce("a", 1)
  \/ ElementRemoved("a")
  \/ ElementRedrawn("a", 2)
  \/ ElementsChanged(<<"a">>)

SpecAll == Init /\ [][NextAll]_vars

\* wheel deltas with the one of a single notch
WheelDeltaYs == DeltaYs \cup {-300}

\* the widget under wheel and viewbox events, without drags, on a diagram
\* that gets its elements with their first visual and keeps them
NextWheel ==
  \/ \E event \in Offsets, deltaY \in WheelDeltaYs : Wheel(event, deltaY)
  \/ \E box \in ExtViewboxes : ViewboxChanged(box)
  \/ \E id \in Ids : ElementAdded(id, 1)

SpecWheel == Init /\ [][NextWheel]_vars

\* the widget under the notifications about elements
NextMirror == ElementEvents

SpecMirror == Init /\ [][NextMirror]_vars

\* the widget under the notifications about elements, with a host that
\* calls removeElement
NextApi == ElementEvents \/ \E id \in Ids : ApiRemoveElement(id)

SpecApi == Init /\ [][NextApi]_vars

\* the widget under the notifications about elements, none of them an added
\* element that has a mirror node, with a host that calls addElement and
\* removeElement
NextHost ==
  \/ \E id \in Ids, v \in Visuals : ElementAddedOnce(id, v)
  \/ \E id \in Ids : ElementRemoved(id)
  \/ \E id \in Ids, v \in Visuals : ElementRedrawn(id, v)
  \/ \E elements \in Batches : ElementsChanged(elements)
  \/ \E id \in Ids, v \in Visuals : ApiAddElement(id, v)
  \/ \E id \in Ids : ApiRemoveElement(id)

SpecHost == Init /\ [][NextHost]_vars

----------------------------------------------------------------------------
(* The geometric functions called on their own *)

\* largest width and height of the bounds given to fitAspectRatio
MaxDim == 3

\* largest numerator and denominator of the target ratios
MaxRatio == 3

PureBounds ==
  {Box(N(x), N(y), N(w), N(h)) :
     x \in {-5, 0}, y \in {0, 7}, w \in (0..MaxDim) \cup {100}, h \in (0..MaxDim) \cup {100}}

PureRatios ==
  {Norm(n, d) : n \in 1..MaxRatio, d \in 1..MaxRatio} \cup {JsDiv(N(320), N(180))}

\* pixel sizes of the miniature
PureRects ==
  {[width |-> N(320), height |-> N(180)], [width |-> N(200), height |-> N(200)],
   [width |-> N(100), height |-> N(300)]}

\* the pointer at the centre and at the top-left corner of the miniature
PureEvents(clientRect) ==
  {[offsetX |-> Half(clientRect.width), offsetY |-> Half(clientRect.height)],
   [offsetX |-> N(0), offsetY |-> N(0)]}

\* largest argument of map
MaxMap == 3

PureOuts == {-2, 0, 5}

\* a call before it runs: bounds is the object given to fitAspectRatio, by
\* the caller or, for mapClickToDiagramPoint, as the value of getBBox();
\* after is that object once the call has returned
FitCalls ==
  {[fn |-> "fitAspectRatio", done |-> FALSE, bounds |-> b, ratio |-> r,
    result |-> Undefined, after |-> Undefined] :
     b \in PureBounds, r \in PureRatios}

MapClickCalls ==
  UNION {{[fn |-> "mapClickToDiagramPoint", done |-> FALSE, bounds |-> b,
           clientRect |-> c, event |-> e, result |-> Undefined,
           after |-> Undefined] : e \in PureEvents(c), b \in PureBounds} :
         c \in PureRects}

MapCalls ==
  {[fn |-> "map", done |-> FALSE, x |-> N(x), inMin |-> N(i1), inMax |-> N(i2),
    outMin |-> N(o1), outMax |-> N(o2), result |-> Undefined] :
     x \in 0..MaxMap, i1 \in 0..MaxMap, i2 \in 0..MaxMap,
     o1 \in PureOuts, o2 \in PureOuts}

InitPure ==
  /\ InitWidget
  /\ call \in FitCalls \cup MapClickCalls \cup MapCalls

\* fitAspectRatio changes the bounds object in place (assign) and returns it
CallFitAspectRatio ==
  /\ call.fn = "fitAspectRatio"
  /\ ~call.done
  /\ call' = [call EXCEPT !.done = TRUE,
                !.result = fitAspectRatio(call.bounds, call.ratio),
                !.after = fitAspectRatio(call.bounds, call.ratio)]
  /\ UNCHANGED <<state, nodes, svgViewBox, viewport, registry, viewbox, req, threw>>

CallMapClickToDiagramPoint ==
  /\ call.fn = "mapClickToDiagramPoint"
  /\ ~call.done
  /\ call' = [call EXCEPT !.done = TRUE,
                !.result = mapClickToDiagramPointOn(call.event, call.bounds,
                                                    call.clientRect),
                !.after = fitAspectRatio(call.bounds,
                            JsDiv(call.clientRect.width, call.clientRect.height))]
  /\ UNCHANGED <<state, nodes, svgViewBox, viewport, registry, viewbox, req, threw>>

CallMap ==
  /\ call.fn = "map"
  /\ ~call.done
  /\ call' = [call EXCEPT !.done = TRUE,
                !.result = map(call.x, call.inMin, call.inMax, call.outMin,
                               call.outMax)]
  /\ UNCHANGED <<state, nodes, svgViewBox, viewport, registry, viewbox, req, threw>>

NextPure == CallFitAspectRatio \/ CallMapClickToDiagramPoint \/ CallMap

SpecPure == InitPure /\ [][NextPure]_vars

----------------------------------------------------------------------------
(* Properties *)

IsSet(v) == v # Null /\ v # Undefined

NodeIds == {nodes[i].id : i \in 1..Len(nodes)}

RegisteredIds == {id \in Ids : registry[id] # NoGfx}

NumLe(a, b) == ~IsNaN(a) /\ ~IsNaN(b) /\ ~NumLt(b, a)

\* v is within one tenth of n/d
Approx(v, n, d) ==
  /\ NumLe(Num(-1, 10), JsSub(v, Num(n, d)))
  /\ NumLe(JsSub(v, Num(n, d)), Num(1, 10))

CenterX(b) == JsAdd(b.x, Half(b.width))

CenterY(b) == JsAdd(b.y, Half(b.height))

\* C1: after every notification about elements (added, removed, changed) the
\* ids of the mirror nodes are exactly the ids registered with the canvas.
MirrorSetEqualsRegistered == NodeIds = RegisteredIds

\* C2: in every state the initial drag position and the cached viewbox are
\* set exactly when isDragging is true (a missing initialDragPosition counts
\* as null).
DragRecordConsistent ==
  /\ IsSet(state.initialDragPosition) <=> state.isDragging
  /\ IsSet(state.cachedViewbox) <=> state.isDragging

DraggingReached ==
  /\ state.isDragging
  /\ IsSet(state.initialDragPosition)
  /\ IsSet(state.cachedViewbox)
  /\ req.ev = "wheel"
  /\ state.cachedViewbox # viewbox

\* C3: a mousedown leaves the widget dragging with the canvas viewbox of
\* that moment as cachedViewbox; a mouseup leaves it idle with cachedViewbox
\* null, whatever happened since the mousedown.
DragLifecycle ==
  [][/\ req'.ev = "mousedown" =>
          /\ state'.isDragging
          /\ IsSet(state'.cachedViewbox)
          /\ state'.cachedViewbox = viewbox
     /\ req'.ev = "mouseup" =>
          /\ ~state'.isDragging
          /\ state'.cachedViewbox = Null]_vars

DragEndedAfterMoves ==
  /\ req.ev = "mouseup"
  /\ req.drag = "moved"
  /\ ~state.isDragging
  /\ state.cachedViewbox = Null

\* C4: the zoom a wheel event passes to the canvas is a number between
\* MAX_ZOOM (0.2) and MIN_ZOOM (4), and the canvas takes it.
ZoomRequestClamped ==
  req.ev = "wheel" =>
    /\ IsFinite(req.zoom)
    /\ NumLe(MAX_ZOOM, req.zoom)
    /\ NumLe(req.zoom, MIN_ZOOM)
    /\ canvasZoom(viewbox) = req.zoom

\* a wheel event whose unclamped zoom is above MIN_ZOOM
ZoomCeilingHit ==
  /\ req.ev = "wheel"
  /\ NumLt(MIN_ZOOM, JsSub(canvasZoom(req.pre), JsDiv(req.deltaY, N(ZOOM_SMOOTHING))))
  /\ req.zoom = MIN_ZOOM

\* C5: the viewbox setViewboxCenteredAroundPoint passes to the canvas has its
\* centre at the point and the width and height of the viewbox the canvas had
\* before the call.
CenteredOnPoint ==
  req.ev \in {"click", "mousemove", "wheel"} /\ req.box # Undefined =>
    /\ CenterX(req.box) = req.point.x
    /\ CenterY(req.box) = req.point.y
    /\ req.box.width = req.pre.width
    /\ req.box.height = req.pre.height

ClickRecentred ==
  /\ req.ev = "click"
  /\ req.box # req.pre
  /\ req.box.width # OUTER.width
  /\ req.point # [x |-> N(0), y |-> N(0)]

\* the view bounds the floor of 320 by 180 gives for the diagram bounds b
FlooredBounds(b) ==
  IF NumLt(b.width, N(320)) /\ NumLt(b.height, N(180))
  THEN Box(JsSub(b.x, Half(JsSub(N(320), b.width))),
           JsSub(b.y, Half(JsSub(N(180), b.height))), N(320), N(180))
  ELSE b

\* C6: after every _update the viewBox of the svg is 320 by 180 centred on
\* the content when the diagram bounds are below 320 wide and below 180 high,
\* and the diagram bounds otherwise.
ViewBoundsFloored ==
  req.ev \in {"added", "changed"} /\ ~threw =>
    svgViewBox = FlooredBounds(getBBox(registry))

\* C7: while dragging, the viewbox a mousemove passes to the canvas has the
\* width and height of cachedViewbox and its centre at the diagram point
\* under the pointer.
DragKeepsCachedSize ==
  req.ev = "mousemove" /\ state.isDragging =>
    /\ req.box.width = state.cachedViewbox.width
    /\ req.box.height = state.cachedViewbox.height
    /\ CenterX(req.box) = req.point.x
    /\ CenterY(req.box) = req.point.y

\* C8: removeElement on an element without a mirror node throws nothing and
\* leaves the mirror nodes as they are, and the second of two calls in a row
\* for the same element leaves the state of the first.
RemoveIdempotent ==
  [][req'.ev = "removeElement" =>
       /\ getElementById(nodes, req'.id) = 0 => nodes' = nodes /\ ~threw'
       /\ req.ev = "removeElement" /\ req.id = req'.id => nodes' = nodes /\ ~threw'
    ]_vars

\* removeElement on an element without a mirror node throws nothing and
\* leaves the mirror nodes as they are
RemoveAbsentIsNoop ==
  [][req'.ev = "removeElement" /\ getElementById(nodes, req'.id) = 0 =>
       nodes' = nodes /\ ~threw']_vars

FitDone == call.fn = "fitAspectRatio" /\ call.done

\* C9: for bounds of positive width and height and a ratio r > 0 the box
\* fitAspectRatio returns has width / height = r and the centre of the
\* bounds; it is the bounds when their ratio is r, and otherwise only the
\* height (ratio above r) or only the width (ratio below r) has grown.
FitAspectRatioCorrect ==
  FitDone /\ NumLt(N(0), call.bounds.width) /\ NumLt(N(0), call.bounds.height) =>
    LET b == call.bounds
        f == call.result
        r == call.ratio
        ratio == JsDiv(b.width, b.height)
    IN /\ JsDiv(f.width, f.height) = r
       /\ CenterX(f) = CenterX(b)
       /\ CenterY(f) = CenterY(b)
       /\ ratio = r => f = b
       /\ NumLt(r, ratio) =>
            /\ f.width = b.width /\ f.x = b.x
            /\ NumLt(b.height, f.height)
       /\ NumLt(ratio, r) =>
            /\ f.height = b.height /\ f.y = b.y
            /\ NumLt(b.width, f.width)

HeightFitted ==
  /\ FitDone
  /\ NumLt(N(0), call.bounds.height)
  /\ NumLt(call.ratio, JsDiv(call.bounds.width, call.bounds.height))
  /\ call.result.y # call.bounds.y

SquareFitted ==
  /\ FitDone
  /\ call.bounds = Box(N(0), N(0), N(100), N(100))
  /\ call.ratio = Num(16, 9)

\* C10 as stated: fitting {0, 0, 100, 100} to 320 by 180 gives ratio 16/9
\* with height about 177.8, width still 100 and y about -38.9.
SquareFitGrowsHeight ==
  SquareFitted =>
    /\ JsDiv(call.result.width, call.result.height) = Num(16, 9)
    /\ Approx(call.result.height, 1778, 10)
    /\ call.result.width = N(100)
    /\ Approx(call.result.y, -389, 10)

\* C10: fitting {0, 0, 100, 100} to 320 by 180 gives ratio 16/9 with width
\* about 177.8, height still 100, x about -38.9 and y still 0.
SquareFitGrowsWidth ==
  SquareFitted =>
    /\ JsDiv(call.result.width, call.result.height) = Num(16, 9)
    /\ Approx(call.result.width, 1778, 10)
    /\ call.result.height = N(100)
    /\ Approx(call.result.x, -389, 10)
    /\ call.result.y = N(0)

SquareFitReached ==
  /\ SquareFitted
  /\ call.result.width = Num(1600, 9)

MapClickDone == call.fn = "mapClickToDiagramPoint" /\ call.done

AtCentre(event, clientRect) ==
  /\ event.offsetX = Half(clientRect.width)
  /\ event.offsetY = Half(clientRect.height)

\* C11: for bounds of positive width and height and any pixel size of the
\* miniature, mapClickToDiagramPoint maps the centre of the miniature to the
\* centre of the bounds; offset (160, 90) on 320 by 180 over {0, 0, 100, 100}
\* gives (50, 50).
CentreMapsToCentre ==
  /\ MapClickDone /\ AtCentre(call.event, call.clientRect)
       /\ NumLt(N(0), call.bounds.width) /\ NumLt(N(0), call.bounds.height) =>
       /\ call.result.x = CenterX(call.bounds)
       /\ call.result.y = CenterY(call.bounds)
  /\ MapClickDone /\ call.bounds = Box(N(0), N(0), N(100), N(100))
       /\ call.clientRect = [width |-> N(320), height |-> N(180)]
       /\ call.event = [offsetX |-> N(160), offsetY |-> N(90)] =>
       call.result = [x |-> N(50), y |-> N(50)]

CentreOfSquareMapped ==
  /\ MapClickDone
  /\ call.bounds = Box(N(0), N(0), N(100), N(100))
  /\ call.clientRect = [width |-> N(320), height |-> N(180)]
  /\ call.event = [offsetX |-> N(160), offsetY |-> N(90)]
  /\ call.result = [x |-> N(50), y |-> N(50)]

MapDone == call.fn = "map" /\ call.done

\* C12: for inMin < inMax and outMin < outMax, map sends inMin to outMin and
\* inMax to outMax, and every x from inMin to inMax into outMin..outMax.
MapWithinRange ==
  MapDone /\ NumLt(call.inMin, call.inMax) /\ NumLt(call.outMin, call.outMax) =>
    /\ call.x = call.inMin => call.result = call.outMin
    /\ call.x = call.inMax => call.result = call.outMax
    /\ NumLe(call.inMin, call.x) /\ NumLe(call.x, call.inMax) =>
         NumLe(call.outMin, call.result) /\ NumLe(call.result, call.outMax)

MapInsideReached ==
  /\ MapDone
  /\ NumLt(call.inMin, call.x) /\ NumLt(call.x, call.inMax)
  /\ NumLt(call.outMin, call.result) /\ NumLt(call.result, call.outMax)
  /\ call.outMin # N(0)

\* v kept between lo and hi
Clamped(v, lo, hi) == IF NumLt(v, lo) THEN lo ELSE IF NumLt(hi, v) THEN hi ELSE v

\* C13: the zoom a wheel event passes to the canvas is zoom - deltaY / 300
\* kept between 0.2 and 4, where zoom is the zoom of the canvas after the
\* re-centring; deltaY = -300 raises the zoom by exactly 1, or to 4 when
\* that would be above 4.
WheelZoomRule ==
  req.ev = "wheel" =>
    LET zoom == canvasZoom(canvasSetViewbox(req.pre, req.box)) IN
    /\ req.zoom = Clamped(JsSub(zoom, JsDiv(req.deltaY, N(300))), Num(1, 5), N(4))
    /\ req.deltaY = N(-300) =>
         req.zoom = IF NumLt(N(4), JsAdd(zoom, N(1))) THEN N(4) ELSE JsAdd(zoom, N(1))

NotchRaisedZoomByOne ==
  /\ req.ev = "wheel"
  /\ req.deltaY = N(-300)
  /\ req.zoom = JsAdd(canvasZoom(req.pre), N(1))
  /\ NumLt(req.zoom, N(4))

\* the last handler ran _update to its end
Updated ==
  \/ req.ev \in {"click", "wheel", "added", "viewbox.changed"}
  \/ req.ev = "mousemove" /\ req.box # Undefined
  \/ req.ev = "changed" /\ ~threw

\* C14: after a click, a mousemove while dragging, a wheel event, an added
\* element, changed elements or a changed viewbox, the x, y, width and height
\* of the viewport rectangle are those of the canvas viewbox.
IndicatorShowsViewbox ==
  Updated => viewport = Box(viewbox.x, viewbox.y, viewbox.width, viewbox.height)

IndicatorFollowedWheel ==
  /\ req.ev = "wheel"
  /\ viewbox # req.pre
  /\ viewbox.width # req.pre.width
  /\ viewport = viewbox

\* C17: click, mousemove, wheel, added element, changed elements and changed
\* viewbox leave the drag record (isDragging, initialDragPosition,
\* cachedViewbox) as it is; only mousedown and mouseup change it.
DragRecordFrame ==
  [][req'.ev \in {"click", "mousemove", "wheel", "added", "changed", "viewbox.changed"}
       => state' = state]_vars

DragSurvivedMove ==
  /\ state.isDragging
  /\ req.ev = "mousemove"
  /\ req.box # Undefined
  /\ viewbox # state.cachedViewbox

SeqRange(q) == {q[i] : i \in 1..Len(q)}

\* the nodes of ns whose id is not in B
NodesOutside(ns, B) ==
  LET Outside(n) == n.id \notin B IN SelectSeq(ns, Outside)

\* C15: after elements.changed for a batch, every element of the batch with
\* graphics in the registry has a mirror node cloned from them, every element
\* of the batch without graphics has no mirror node, and the mirror nodes of
\* the other elements are as before.
BatchChangeMirrored ==
  [][req'.ev = "changed" =>
       LET B == SeqRange(req'.batch) IN
       /\ \A id \in B : registry[id] # NoGfx =>
            clone(Element(id), getDjsVisual(registry[id])) \in SeqRange(nodes')
       /\ \A id \in B : registry[id] = NoGfx =>
            \A n \in SeqRange(nodes') : n.id # id
       /\ NodesOutside(nodes', B) = NodesOutside(nodes, B)
    ]_vars

\* C16: the bounding box a click, a mousemove while dragging or a wheel event
\* gives to fitAspectRatio and map has the floor of 320 by 180 applied, so
\* its width and height are not zero.
MappingOnFlooredBounds ==
  req.bounds # Undefined =>
    /\ req.bounds = FlooredBounds(getBBox(registry))
    /\ req.bounds.width # N(0)
    /\ req.bounds.height # N(0)

\* C18: the wheel handler stops the propagation of its event and prevents
\* its default action.
WheelEventSuppressed ==
  req.ev = "wheel" => req.propagationStopped /\ req.defaultPrevented

\* the wheel handler stops the propagation of its event
WheelPropagationStopped ==
  req.ev = "wheel" => req.propagationStopped

\* C19: fitAspectRatio and mapClickToDiagramPoint leave the bounds object
\* they work on as it was before the call.
BoundsArgumentUntouched ==
  call.fn \in {"fitAspectRatio", "mapClickToDiagramPoint"} /\ call.done =>
    call.after = call.bounds

\* number of nodes of ns with the id
CountOf(ns, id) == Cardinality({i \in 1..Len(ns) : ns[i].id = id})

OnePerId(ns) == \A id \in Ids : CountOf(ns, id) <= 1

\* elements.changed on mirror nodes with one node per id at most does what
\* BatchChangeMirrored says
BatchChangeMirroredWhenOnePerId ==
  [][req'.ev = "changed" /\ OnePerId(nodes) =>
       LET B == SeqRange(req'.batch) IN
       /\ \A id \in B : registry[id] # NoGfx =>
            clone(Element(id), getDjsVisual(registry[id])) \in SeqRange(nodes')
       /\ \A id \in B : registry[id] = NoGfx =>
            \A n \in SeqRange(nodes') : n.id # id
       /\ NodesOutside(nodes', B) = NodesOutside(nodes, B)
    ]_vars

\* C20: when no element is added that has a mirror node, added and changed
\* elements keep the mirror nodes at one per id at most, from the empty
\* elements group on; addElement for an id with a mirror node makes one node
\* more with that id, and removeElement for an id with several nodes takes
\* one of them out and leaves the others.
MirrorNodesPerId ==
  /\ OnePerId(<<>>)
  /\ [][/\ req'.ev \in {"added", "changed"} /\ OnePerId(nodes) => OnePerId(nodes')
        /\ req'.ev = "addElement" /\ CountOf(nodes, req'.id) >= 1 =>
             CountOf(nodes', req'.id) = CountOf(nodes, req'.id) + 1
        /\ req'.ev = "removeElement" /\ CountOf(nodes, req'.id) >= 2 =>
             CountOf(nodes', req'.id) = CountOf(nodes, req'.id) - 1
       ]_vars

OneOfTwoRemoved ==
  /\ req.ev = "removeElement"
  /\ CountOf(nodes, req.id) >= 1

====
